---- MODULE Spec2Model ----
(***************************************************************************)
(* Model of nvfuser's multi-device PipelineExecutor                        *)
(* (csrc/multidevice/executor.cpp): per-stage membership resolution, stage *)
(* execution, the lowering of a cross-mesh edge into SendRecvDescriptors   *)
(* and the per-rank execution of a pipeline, run by several ranks.         *)
(***************************************************************************)
EXTENDS Integers, Sequences, FiniteSets, TLC

\* ------------------------------------------------------------------------
\* Bounds
\* ------------------------------------------------------------------------
\* longest sender_ranks / receiver_ranks vector given to the lowering
MaxSenders == 3
MaxReceivers == 4
\* number of runWithInput calls made on one executor
MaxRuns == 2
\* longest device mesh of a stage in the executed pipeline
MaxMeshLen == 2

\* device identifiers of the deployment (three processes, one device each)
Devices == {0, 1, 2}
Ranks == 0 .. (Cardinality(Devices) - 1)

\* ------------------------------------------------------------------------
\* Communication lowering, executor.cpp lines 84-99
\* ------------------------------------------------------------------------
\* loop bound of the inner loop: nbr_dests_per_comm + (i < remainder), with
\* nbr_dests_per_comm = |receivers| / nbr_srcs, remainder = |receivers| % nbr_srcs
AllotmentLast(i, nbr_srcs, nbr_dests) ==
    (nbr_dests \div nbr_srcs)
      + (IF i >= nbr_srcs - (nbr_dests % nbr_srcs) THEN 1 ELSE 0)

AllotmentNoRemainder(i, nbr_srcs, nbr_dests) == nbr_dests \div nbr_srcs

Allotment(i, nbr_srcs, nbr_dests) ==
    (nbr_dests \div nbr_srcs)
      + (IF i < nbr_dests % nbr_srcs THEN 1 ELSE 0)

\* receiver_ranks.at(j), j counted from 0
ReceiverAtBackwards(receiver_ranks, j) == receiver_ranks[Len(receiver_ranks) - j]

ReceiverAt(receiver_ranks, j) == receiver_ranks[j + 1]

\* SendRecvDescriptor built for one source: team = {src, dsts...}, root = src
MakeDescriptorDefaultRoot(src, dsts) == [team |-> <<src>> \o dsts, root |-> 0]

MakeDescriptor(src, dsts) == [team |-> <<src>> \o dsts, root |-> src]

\* the loop over i (0-based) with the running index j into receiver_ranks
RECURSIVE LowerLoop(_, _, _, _, _)
LowerLoop(sender_ranks, receiver_ranks, i, j, communications) ==
    IF i >= Len(sender_ranks)
    THEN communications
    ELSE LET n == Allotment(i, Len(sender_ranks), Len(receiver_ranks))
             dsts == [counter \in 1 .. n |->
                         ReceiverAt(receiver_ranks, j + counter - 1)]
         IN LowerLoop(sender_ranks, receiver_ranks, i + 1, j + n,
                      Append(communications,
                             MakeDescriptor(sender_ranks[i + 1], dsts)))

Lower(sender_ranks, receiver_ranks) ==
    LowerLoop(sender_ranks, receiver_ranks, 0, 0, <<>>)

\* ------------------------------------------------------------------------
\* helpers on sequences
\* ------------------------------------------------------------------------
SeqsUpTo(S, lo, hi) == UNION {[1 .. n -> S] : n \in lo .. hi}

RECURSIVE Flatten(_)
Flatten(ss) == IF ss = <<>> THEN <<>> ELSE Head(ss) \o Flatten(Tail(ss))

Count(x, s) == Cardinality({k \in 1 .. Len(s) : s[k] = x})

\* team entries after the leading root entry, over all descriptors
NonRootEntries(comms) ==
    Flatten([k \in 1 .. Len(comms) |-> Tail(comms[k].team)])

\* ------------------------------------------------------------------------
\* The executed pipeline (the graph is owned by the Pipeline, executor.h):
\*   V0 (global input) -> stage 1 -> V1 -> communication -> V2 -> stage 2
\*   -> V3 (global output), V4 (second output of stage 2, not a global one)
\* ------------------------------------------------------------------------
Stages == {1, 2}
Values == {"V0", "V1", "V2", "V3", "V4"}

\* runtime_.pipeline_->inputs() / outputs()
PipelineInputs == <<"V0">>
PipelineOutputs == <<"V3">>

\* stage->inputs() / stage->outputs()
StageInputs(stage) == IF stage = 1 THEN <<"V0">> ELSE <<"V2">>
StageOutputs(stage) == IF stage = 1 THEN <<"V1">> ELSE <<"V3", "V4">>

\* c->in() / c->out() of the one PipelineCommunication, and the stages
\* these PipelineVals belong to (getStage())
CommIn == "V1"
CommOut == "V2"
CommInStage == 1
CommOutStage == 2

\* the order in which traverseTo dispatches the nodes: the topological
\* order of the pipeline, the same on every rank
TraversalOrder ==
    << [kind |-> "stage", stage |-> 1],
       [kind |-> "comm", stage |-> 0],
       [kind |-> "stage", stage |-> 2] >>

\* runtime_.dIdToRank / runtime_.rankToDiD: a bijection device <-> rank
DIdToRank(d) == (d + 1) % Cardinality(Devices)
RankToDiD(r) == CHOOSE d \in Devices : DIdToRank(d) = r

\* ------------------------------------------------------------------------
\* Tensors and IValues
\* ------------------------------------------------------------------------
Real(d) == [kind |-> "real", data |-> d]
\* result of allocOutputSpace: shape and type only, no computed data
Placeholder == [kind |-> "placeholder", data |-> 0]
\* default-constructed c10::IValue
None == [kind |-> "none", data |-> 0]

\* FusionExecutorCache::runFusionWithInputs: one output per declared output,
\* computed from the inputs; real data only out of real data
RunFusionWithInputs(stage, inputs) ==
    [k \in 1 .. Len(StageOutputs(stage)) |->
        IF \A n \in 1 .. Len(inputs) : inputs[n].kind = "real"
        THEN Real(100 * stage + 10 * (k - 1) + inputs[1].data)
        ELSE Placeholder]

\* FusionExecutorCache::allocOutputSpace
AllocOutputSpace(stage, inputs) ==
    [k \in 1 .. Len(StageOutputs(stage)) |-> Placeholder]

\* ------------------------------------------------------------------------
\* val_to_IValue_ : a map with operator[] (inserts a default IValue when the
\* key is absent) and at()
\* ------------------------------------------------------------------------
Bind(store, key, x) ==
    [v \in DOMAIN store \cup {key} |-> IF v = key THEN x ELSE store[v]]

\* the map after operator[] has been applied to key
Touch(store, key) ==
    IF key \in DOMAIN store THEN store ELSE Bind(store, key, None)

RECURSIVE TouchAll(_, _)
TouchAll(store, keys) ==
    IF keys = <<>> THEN store
    ELSE TouchAll(Touch(store, Head(keys)), Tail(keys))

RECURSIVE BindAllReversed(_, _, _)
BindAllReversed(store, keys, xs) ==
    IF keys = <<>> THEN store
    ELSE BindAllReversed(Bind(store, Head(keys), xs[Len(xs)]), Tail(keys),
                         SubSeq(xs, 1, Len(xs) - 1))

RECURSIVE BindAll(_, _, _)
BindAll(store, keys, xs) ==
    IF keys = <<>> THEN store
    ELSE BindAll(Bind(store, Head(keys), Head(xs)), Tail(keys), Tail(xs))

\* ------------------------------------------------------------------------
\* shouldRun, executor.cpp lines 15-25
\* ------------------------------------------------------------------------
\* !should_run_.count(stage)
ShouldRunMissingAlways(cache, stage) == TRUE

ShouldRunMissing(cache, stage) == stage \notin DOMAIN cache

\* std::count(mesh.begin(), mesh.end(), rankToDiD(rank())) stored as a bool
MembershipOfRank(mesh_vec, r) == Count(r, mesh_vec) # 0

MembershipExactlyOnce(mesh_vec, r) == Count(RankToDiD(r), mesh_vec) = 1

Membership(mesh_vec, r) == Count(RankToDiD(r), mesh_vec) # 0

\* !fec_.count(stage)
FecMissingAlways(cache, stage) == TRUE

FecMissing(cache, stage) == stage \notin cache

\* ------------------------------------------------------------------------
\* sendRecv calls of one communication, executor.cpp lines 111-116:
\* for each descriptor, for each entry of its team, sendRecv(entry, root)
\* ------------------------------------------------------------------------
TeamCallsNonRoot(communication) ==
    [k \in 1 .. Len(communication.team) - 1 |->
        <<communication.team[k + 1], communication.root>>]

TeamCalls(communication) ==
    [k \in 1 .. Len(communication.team) |->
        <<communication.team[k], communication.root>>]

CallsOf(comms) == Flatten([k \in 1 .. Len(comms) |-> TeamCalls(comms[k])])

\* sender_ranks / receiver_ranks of the communication, lines 66-82
RanksOfMeshAsDevices(mesh_vec) == mesh_vec

RanksOfMesh(mesh_vec) == [k \in 1 .. Len(mesh_vec) |-> DIdToRank(mesh_vec[k])]

\* ------------------------------------------------------------------------
\* State
\* ------------------------------------------------------------------------
VARIABLES
    lw_senders,      \* sender_ranks handed to the lowering
    lw_receivers,    \* receiver_ranks handed to the lowering
    lw_comms,        \* the descriptors it produced
    lw_done,         \* the lowering has run
    mesh,            \* stage -> mesh.deviceIndices() of its descriptor
    run_budget,      \* number of runWithInput calls the caller on each rank
                     \* makes on its executor
    pc,              \* rank -> where the rank is in runWithInput
    node,            \* rank -> index into TraversalOrder of the next node
    val_to_IValue_,  \* rank -> the executor's value bindings
    should_run_,     \* rank -> the executor's membership cache
    fec_,            \* rank -> stages with a cached FusionExecutorCache
    communications,  \* rank -> descriptors of the communication in progress
    tensor,          \* rank -> the local `tensor` of handle(communication)
    call_idx,        \* rank -> number of sendRecv calls already returned
    outputs,         \* rank -> what the last runWithInput returned
    runs,            \* rank -> number of completed runWithInput calls
    calls,           \* rank -> sendRecv calls issued in the current run
    receives,        \* rank -> payloads received in the current run
    pre,             \* rank -> content of the producer value at the start
                     \*         of the last handle(communication)
    comm_done,       \* rank -> number of completed handle(communication)
    path,            \* rank -> stage -> runner path taken in the current run
    fec_built,       \* rank -> stage -> runners constructed so far
    membership_evals \* rank -> stage -> membership tests evaluated so far

lwvars == <<lw_senders, lw_receivers, lw_comms, lw_done>>
exvars == <<mesh, run_budget, pc, node, val_to_IValue_, should_run_, fec_,
            communications, tensor, call_idx, outputs, runs, calls,
            receives, pre, comm_done, path, fec_built, membership_evals>>
vars == <<lw_senders, lw_receivers, lw_comms, lw_done,
          mesh, run_budget, pc, node, val_to_IValue_, should_run_, fec_,
          communications, tensor, call_idx, outputs, runs, calls,
          receives, pre, comm_done, path, fec_built, membership_evals>>

\* duplicate-free device vectors
Meshes ==
    {m \in SeqsUpTo(Devices, 1, MaxMeshLen) :
        \A a, b \in 1 .. Len(m) : a # b => m[a] # m[b]}

EmptyStore == [v \in {} |-> None]

\* the executors right after construction, one per rank
InitExec ==
    /\ pc = [r \in Ranks |-> "idle"]
    /\ node = [r \in Ranks |-> 0]
    /\ val_to_IValue_ = [r \in Ranks |-> EmptyStore]
    /\ should_run_ = [r \in Ranks |-> [s \in {} |-> FALSE]]
    /\ fec_ = [r \in Ranks |-> {}]
    /\ communications = [r \in Ranks |-> <<>>]
    /\ tensor = [r \in Ranks |-> None]
    /\ call_idx = [r \in Ranks |-> 0]
    /\ outputs = [r \in Ranks |-> <<>>]
    /\ runs = [r \in Ranks |-> 0]
    /\ calls = [r \in Ranks |-> <<>>]
    /\ receives = [r \in Ranks |-> 0]
    /\ pre = [r \in Ranks |-> None]
    /\ comm_done = [r \in Ranks |-> 0]
    /\ path = [r \in Ranks |-> [s \in Stages |-> "none"]]
    /\ fec_built = [r \in Ranks |-> [s \in Stages |-> 0]]
    /\ membership_evals = [r \in Ranks |-> [s \in Stages |-> 0]]

\* ------------------------------------------------------------------------
\* The lowering on its own, over all bounded sender / receiver vectors
\* ------------------------------------------------------------------------
InitLower ==
    /\ lw_senders \in SeqsUpTo(Ranks, 1, MaxSenders)
    /\ lw_receivers \in SeqsUpTo(Ranks, 0, MaxReceivers)
    /\ lw_comms = <<>>
    /\ lw_done = FALSE
    /\ mesh = [s \in Stages |-> <<0>>]
    /\ run_budget = 0
    /\ InitExec

LowerEdge ==
    /\ ~lw_done
    /\ lw_comms' = Lower(lw_senders, lw_receivers)
    /\ lw_done' = TRUE
    /\ UNCHANGED <<lw_senders, lw_receivers>>
    /\ UNCHANGED exvars

NextLower == LowerEdge

SpecLower == InitLower /\ [][NextLower]_vars

\* ------------------------------------------------------------------------
\* The pipeline run once by every rank, over all bounded pairs of meshes
\* ------------------------------------------------------------------------
Init ==
    /\ lw_senders = <<>>
    /\ lw_receivers = <<>>
    /\ lw_comms = <<>>
    /\ lw_done = FALSE
    /\ mesh \in [Stages -> Meshes]
    /\ run_budget = 1
    /\ InitExec

\* the `inputs` a caller may pass to its n-th runWithInput call on rank r:
\* one tensor, whose data no other rank and no other call passes
CallerInputs(r, n) == {<<Real(Cardinality(Ranks) * n + r + 1)>>}

\* runWithInput up to the start of the traversal, lines 120-134
RunWithInput(r) ==
    /\ pc[r] = "idle"
    /\ runs[r] < run_budget
    /\ \E inputs \in CallerInputs(r, runs[r]) :
          /\ Len(inputs) = Len(PipelineInputs)
          /\ val_to_IValue_' =
                [val_to_IValue_ EXCEPT
                    ![r] = BindAll(@, PipelineInputs, inputs)]
    /\ pc' = [pc EXCEPT ![r] = "traverse"]
    /\ node' = [node EXCEPT ![r] = 1]
    /\ calls' = [calls EXCEPT ![r] = <<>>]
    /\ receives' = [receives EXCEPT ![r] = 0]
    /\ path' = [path EXCEPT ![r] = [s \in Stages |-> "none"]]
    /\ UNCHANGED <<mesh, run_budget, should_run_, fec_, communications, tensor,
                   call_idx, outputs, runs, pre, comm_done, fec_built,
                   membership_evals>>
    /\ UNCHANGED lwvars

\* what a runner that returns `returned` tensors hands back, given the
\* tensors `full` of a run with the declared output count
ReturnedBy(full, returned) ==
    [k \in 1 .. returned |-> IF k <= Len(full) THEN full[k] ELSE Placeholder]

Min(a, b) == IF a <= b THEN a ELSE b

\* handle(PipelineStage*), lines 27-52, with shouldRun, lines 15-25, for a
\* runner that returns `returned` tensors: outputs.at(output_idx) of line 50
\* throws std::out_of_range at the first output_idx >= returned
VisitStage(r, stage, returned) ==
    LET store1 == TouchAll(val_to_IValue_[r], StageInputs(stage))
        stage_input_IValues ==
            [k \in 1 .. Len(StageInputs(stage)) |->
                store1[StageInputs(stage)[k]]]
        build == FecMissing(fec_[r], stage)
        eval == ShouldRunMissing(should_run_[r], stage)
        cache1 ==
            IF eval /\ stage \notin DOMAIN should_run_[r]
            THEN [s \in DOMAIN should_run_[r] \cup {stage} |->
                     IF s = stage THEN Membership(mesh[stage], r)
                     ELSE should_run_[r][s]]
            ELSE should_run_[r]
        outs == ReturnedBy(
                    IF cache1[stage]
                    THEN RunFusionWithInputs(stage, stage_input_IValues)
                    ELSE AllocOutputSpace(stage, stage_input_IValues),
                    returned)
        stored == Min(returned, Len(StageOutputs(stage)))
    IN /\ fec_' = [fec_ EXCEPT ![r] = @ \cup {stage}]
       /\ fec_built' =
             [fec_built EXCEPT ![r][stage] = IF build THEN @ + 1 ELSE @]
       /\ should_run_' = [should_run_ EXCEPT ![r] = cache1]
       /\ membership_evals' =
             [membership_evals EXCEPT
                 ![r][stage] = IF eval THEN @ + 1 ELSE @]
       /\ path' = [path EXCEPT
                      ![r][stage] = IF cache1[stage] THEN "real"
                                    ELSE "placeholder"]
       /\ val_to_IValue_' =
             [val_to_IValue_ EXCEPT
                 ![r] = BindAll(store1,
                                SubSeq(StageOutputs(stage), 1, stored),
                                SubSeq(outs, 1, stored))]
       /\ pc' = [pc EXCEPT
                    ![r] = IF returned < Len(StageOutputs(stage))
                           THEN "failed_out_of_range" ELSE @]

\* handle(PipelineStage*) as the traversal dispatches it, with a runner that
\* returns as many tensors as the stage declares outputs
HandleStage(r) ==
    /\ pc[r] = "traverse"
    /\ node[r] <= Len(TraversalOrder)
    /\ TraversalOrder[node[r]].kind = "stage"
    /\ VisitStage(r, TraversalOrder[node[r]].stage,
                  Len(StageOutputs(TraversalOrder[node[r]].stage)))
    /\ node' = [node EXCEPT ![r] = @ + 1]
    /\ UNCHANGED <<mesh, run_budget, communications, tensor, call_idx, outputs,
                   runs, calls, receives, pre, comm_done>>
    /\ UNCHANGED lwvars

\* handle(PipelineCommunication*), lines 59-104: the lowering and the read
\* of the producer value into `tensor`
HandleCommunicationBeginOwnFirst(r) ==
    /\ pc[r] = "traverse"
    /\ node[r] <= Len(TraversalOrder)
    /\ TraversalOrder[node[r]].kind = "comm"
    /\ CommIn \in DOMAIN val_to_IValue_[r]
    /\ communications' =
          [communications EXCEPT
              ![r] = LET comms == Lower(RanksOfMesh(mesh[CommInStage]),
                                        RanksOfMesh(mesh[CommOutStage]))
                     IN SelectSeq(comms, LAMBDA c : c.root = r)
                          \o SelectSeq(comms, LAMBDA c : c.root # r)]
    /\ tensor' = [tensor EXCEPT ![r] = val_to_IValue_[r][CommIn]]
    /\ pre' = [pre EXCEPT ![r] = val_to_IValue_[r][CommIn]]
    /\ call_idx' = [call_idx EXCEPT ![r] = 0]
    /\ pc' = [pc EXCEPT ![r] = "comm"]
    /\ UNCHANGED <<mesh, run_budget, node, val_to_IValue_, should_run_, fec_,
                   outputs, runs, calls, receives, comm_done, path, fec_built,
                   membership_evals>>
    /\ UNCHANGED lwvars

HandleCommunicationBeginLocalOnly(r) ==
    /\ pc[r] = "traverse"
    /\ node[r] <= Len(TraversalOrder)
    /\ TraversalOrder[node[r]].kind = "comm"
    /\ CommIn \in DOMAIN val_to_IValue_[r]
    /\ communications' =
          [communications EXCEPT
              ![r] = SelectSeq(Lower(RanksOfMesh(mesh[CommInStage]),
                                     RanksOfMesh(mesh[CommOutStage])),
                               LAMBDA c : \E n \in 1 .. Len(c.team) :
                                              c.team[n] = r)]
    /\ tensor' = [tensor EXCEPT ![r] = val_to_IValue_[r][CommIn]]
    /\ pre' = [pre EXCEPT ![r] = val_to_IValue_[r][CommIn]]
    /\ call_idx' = [call_idx EXCEPT ![r] = 0]
    /\ pc' = [pc EXCEPT ![r] = "comm"]
    /\ UNCHANGED <<mesh, run_budget, node, val_to_IValue_, should_run_, fec_, outputs,
                   runs, calls, receives, comm_done, path, fec_built,
                   membership_evals>>
    /\ UNCHANGED lwvars

HandleCommunicationBegin(r) ==
    /\ pc[r] = "traverse"
    /\ node[r] <= Len(TraversalOrder)
    /\ TraversalOrder[node[r]].kind = "comm"
    /\ CommIn \in DOMAIN val_to_IValue_[r]
    /\ communications' =
          [communications EXCEPT
              ![r] = Lower(RanksOfMesh(mesh[CommInStage]),
                           RanksOfMesh(mesh[CommOutStage]))]
    /\ tensor' = [tensor EXCEPT ![r] = val_to_IValue_[r][CommIn]]
    /\ pre' = [pre EXCEPT ![r] = val_to_IValue_[r][CommIn]]
    /\ call_idx' = [call_idx EXCEPT ![r] = 0]
    /\ pc' = [pc EXCEPT ![r] = "comm"]
    /\ UNCHANGED <<mesh, run_budget, node, val_to_IValue_, should_run_, fec_, outputs,
                   runs, calls, receives, comm_done, path, fec_built,
                   membership_evals>>
    /\ UNCHANGED lwvars

\* the sendRecv call (receiver, sender) a rank inside the loop of lines
\* 111-116 is at
InCall(r) ==
    /\ pc[r] = "comm"
    /\ call_idx[r] < Len(CallsOf(communications[r]))

CurrentCall(r) == CallsOf(communications[r])[call_idx[r] + 1]

\* Communicator::sendRecv(receiver, sender, tensor) with two distinct peers:
\* it returns on both once both have issued it; the sender's payload is
\* written into the receiver's tensor, whose storage the receiver's binding
\* of the producer value shares
SendRecvTransfer(s, d) ==
    /\ s # d
    /\ InCall(s) /\ CurrentCall(s) = <<d, s>>
    /\ InCall(d) /\ CurrentCall(d) = <<d, s>>
    /\ tensor' = [tensor EXCEPT ![d] = tensor[s]]
    /\ val_to_IValue_' =
          [val_to_IValue_ EXCEPT ![d] = Bind(@, CommIn, tensor[s])]
    /\ receives' = [receives EXCEPT ![d] = @ + 1]
    /\ calls' = [calls EXCEPT ![s] = Append(@, <<d, s>>),
                              ![d] = Append(@, <<d, s>>)]
    /\ call_idx' = [call_idx EXCEPT ![s] = @ + 1, ![d] = @ + 1]
    /\ UNCHANGED <<mesh, run_budget, pc, node, should_run_, fec_, communications,
                   outputs, runs, pre, comm_done, path, fec_built,
                   membership_evals>>
    /\ UNCHANGED lwvars

\* Communicator::sendRecv on a rank that has nothing to transfer: the call
\* names the same rank as sender and receiver, or names two other ranks
SendRecvReturn(r) ==
    /\ InCall(r)
    /\ LET call == CurrentCall(r)
       IN /\ call[1] = call[2] \/ r \notin {call[1], call[2]}
          /\ calls' = [calls EXCEPT ![r] = Append(@, call)]
    /\ call_idx' = [call_idx EXCEPT ![r] = @ + 1]
    /\ UNCHANGED <<mesh, run_budget, pc, node, val_to_IValue_, should_run_, fec_,
                   communications, tensor, outputs, runs, receives, pre,
                   comm_done, path, fec_built, membership_evals>>
    /\ UNCHANGED lwvars

\* handle(PipelineCommunication*), line 117, once the loop has ended
HandleCommunicationEndInvolvedOnly(r) ==
    /\ pc[r] = "comm"
    /\ call_idx[r] = Len(CallsOf(communications[r]))
    /\ val_to_IValue_' =
          [val_to_IValue_ EXCEPT
              ![r] = IF \E k \in 1 .. Len(communications[r]) :
                          \E n \in 1 .. Len(communications[r][k].team) :
                              communications[r][k].team[n] = r
                     THEN Bind(@, CommOut, tensor[r])
                     ELSE @]
    /\ comm_done' = [comm_done EXCEPT ![r] = @ + 1]
    /\ pc' = [pc EXCEPT ![r] = "traverse"]
    /\ node' = [node EXCEPT ![r] = @ + 1]
    /\ UNCHANGED <<mesh, run_budget, should_run_, fec_, communications, tensor,
                   call_idx, outputs, runs, calls, receives, pre, path,
                   fec_built, membership_evals>>
    /\ UNCHANGED lwvars

HandleCommunicationEnd(r) ==
    /\ pc[r] = "comm"
    /\ call_idx[r] = Len(CallsOf(communications[r]))
    /\ val_to_IValue_' =
          [val_to_IValue_ EXCEPT ![r] = Bind(@, CommOut, tensor[r])]
    /\ comm_done' = [comm_done EXCEPT ![r] = @ + 1]
    /\ pc' = [pc EXCEPT ![r] = "traverse"]
    /\ node' = [node EXCEPT ![r] = @ + 1]
    /\ UNCHANGED <<mesh, run_budget, should_run_, fec_, communications, tensor,
                   call_idx, outputs, runs, calls, receives, pre, path,
                   fec_built, membership_evals>>
    /\ UNCHANGED lwvars

\* runWithInput after the traversal, lines 136-142
RunWithInputReturn(r) ==
    /\ pc[r] = "traverse"
    /\ node[r] > Len(TraversalOrder)
    /\ LET store1 == TouchAll(val_to_IValue_[r], PipelineOutputs)
       IN /\ val_to_IValue_' = [val_to_IValue_ EXCEPT ![r] = store1]
          /\ outputs' =
                [outputs EXCEPT
                    ![r] = [k \in 1 .. Len(PipelineOutputs) |->
                               store1[PipelineOutputs[k]]]]
    /\ runs' = [runs EXCEPT ![r] = @ + 1]
    /\ pc' = [pc EXCEPT ![r] = "idle"]
    /\ UNCHANGED <<mesh, run_budget, node, should_run_, fec_, communications, tensor,
                   call_idx, calls, receives, pre, comm_done, path,
                   fec_built, membership_evals>>
    /\ UNCHANGED lwvars

Next ==
    \/ \E r \in Ranks : RunWithInput(r)
    \/ \E r \in Ranks : HandleStage(r)
    \/ \E r \in Ranks : HandleCommunicationBegin(r)
    \/ \E s \in Ranks : \E d \in Ranks : SendRecvTransfer(s, d)
    \/ \E r \in Ranks : SendRecvReturn(r)
    \/ \E r \in Ranks : HandleCommunicationEnd(r)
    \/ \E r \in Ranks : RunWithInputReturn(r)

Spec == Init /\ [][Next]_vars

\* every rank is a process that keeps running: a step that is possible is
\* eventually taken
SpecLive == Spec /\ WF_vars(Next)

\* ------------------------------------------------------------------------
\* Repeated runWithInput calls on the same executors: stage 1 on device 0,
\* stage 2 on devices 1 and 2
\* ------------------------------------------------------------------------
InitRepeat ==
    /\ lw_senders = <<>>
    /\ lw_receivers = <<>>
    /\ lw_comms = <<>>
    /\ lw_done = FALSE
    /\ mesh = <<(<<0>>), (<<1, 2>>)>>
    /\ run_budget = MaxRuns
    /\ InitExec

SpecRepeat == InitRepeat /\ [][Next]_vars

\* ------------------------------------------------------------------------
\* One executor given ill-formed arguments: a wrong number of global inputs,
\* nodes dispatched in an order that is not a topological one, a runner that
\* returns a wrong number of tensors, meshes that are empty or list a device
\* twice
\* ------------------------------------------------------------------------
IllFormedMeshes == SeqsUpTo(Devices, 0, MaxMeshLen)

\* `inputs` whose size differs from the number of global inputs
WrongCallerInputs(r) == {<<>>, <<Real(r + 1), Real(r + 1)>>}

InitIllFormed ==
    /\ lw_senders = <<>>
    /\ lw_receivers = <<>>
    /\ lw_comms = <<>>
    /\ lw_done = FALSE
    /\ mesh \in [Stages -> IllFormedMeshes]
    /\ run_budget = 1
    /\ InitExec

\* runWithInput, lines 120-125, when TORCH_INTERNAL_ASSERT fails
RunWithInputRejectedLate(r) ==
    /\ pc[r] = "idle"
    /\ runs[r] < run_budget
    /\ \E inputs \in WrongCallerInputs(r) :
          /\ Len(inputs) # Len(PipelineInputs)
          /\ val_to_IValue_' =
                [val_to_IValue_ EXCEPT
                    ![r] = IF inputs = <<>> THEN @
                           ELSE BindAll(@, PipelineInputs, inputs)]
    /\ pc' = [pc EXCEPT ![r] = "failed_assert"]
    /\ UNCHANGED <<mesh, run_budget, node, should_run_, fec_,
                   communications, tensor, call_idx, outputs, runs, calls,
                   receives, pre, comm_done, path, fec_built,
                   membership_evals>>
    /\ UNCHANGED lwvars

RunWithInputRejected(r) ==
    /\ pc[r] = "idle"
    /\ runs[r] < run_budget
    /\ \E inputs \in WrongCallerInputs(r) :
          Len(inputs) # Len(PipelineInputs)
    /\ pc' = [pc EXCEPT ![r] = "failed_assert"]
    /\ UNCHANGED <<mesh, run_budget, node, val_to_IValue_, should_run_, fec_,
                   communications, tensor, call_idx, outputs, runs, calls,
                   receives, pre, comm_done, path, fec_built,
                   membership_evals>>
    /\ UNCHANGED lwvars

\* handle(PipelineStage*) dispatched on any stage, whatever is bound, with a
\* runner that returns `returned` tensors
DispatchStage(r, stage, returned) ==
    /\ pc[r] = "traverse"
    /\ VisitStage(r, stage, returned)
    /\ UNCHANGED <<mesh, run_budget, node, communications, tensor, call_idx,
                   outputs, runs, calls, receives, pre, comm_done>>
    /\ UNCHANGED lwvars

\* handle(PipelineCommunication*), lines 59-104, on an edge whose producer
\* mesh is empty: nbr_srcs is 0 and lines 85-86 divide by it, which is
\* undefined.  The division traps, or it yields some value and the loop of
\* line 88 runs zero times, leaving `communications` empty; line 104 then
\* reads the producer value with at()
HandleCommunicationNoSenders(r) ==
    /\ pc[r] = "traverse"
    /\ comm_done[r] < MaxRuns
    /\ Len(mesh[CommInStage]) = 0
    /\ \E trapped \in BOOLEAN :
          IF trapped
          THEN /\ pc' = [pc EXCEPT ![r] = "failed_trap"]
               /\ UNCHANGED <<communications, tensor, pre, call_idx>>
          ELSE IF CommIn \notin DOMAIN val_to_IValue_[r]
          THEN /\ pc' = [pc EXCEPT ![r] = "failed_out_of_range"]
               /\ UNCHANGED <<communications, tensor, pre, call_idx>>
          ELSE /\ pc' = [pc EXCEPT ![r] = "comm"]
               /\ communications' = [communications EXCEPT ![r] = <<>>]
               /\ tensor' = [tensor EXCEPT ![r] = val_to_IValue_[r][CommIn]]
               /\ pre' = [pre EXCEPT ![r] = val_to_IValue_[r][CommIn]]
               /\ call_idx' = [call_idx EXCEPT ![r] = 0]
    /\ UNCHANGED <<mesh, run_budget, node, val_to_IValue_, should_run_, fec_,
                   outputs, runs, calls, receives, comm_done, path,
                   fec_built, membership_evals>>
    /\ UNCHANGED lwvars

\* the executor of rank r is the only one in use
Alone(r) ==
    \A q \in Ranks \ {r} : pc[q] = "idle" /\ val_to_IValue_[q] = EmptyStore

NextIllFormed ==
    \/ \E r \in Ranks : Alone(r) /\ RunWithInput(r)
    \/ \E r \in Ranks : Alone(r) /\ RunWithInputRejected(r)
    \/ \E r \in Ranks : \E stage \in Stages :
          \E returned \in 0 .. Len(StageOutputs(stage)) + 1 :
             Alone(r) /\ DispatchStage(r, stage, returned)
    \/ \E r \in Ranks : Alone(r) /\ HandleCommunicationNoSenders(r)
    \/ \E r \in Ranks : Alone(r) /\ HandleCommunicationEnd(r)

SpecIllFormed == InitIllFormed /\ [][NextIllFormed]_vars

\* ------------------------------------------------------------------------
\* Properties of the lowering
\* ------------------------------------------------------------------------
\* C1: partition completeness.  For non-empty senders and receivers, the
\* team entries after each descriptor's root entry, over all descriptors,
\* contain every element of the receivers exactly as often as the receiver
\* vector does (once), and nothing else.
PartitionCompleteness ==
    (lw_done /\ Len(lw_senders) >= 1 /\ Len(lw_receivers) >= 1) =>
        /\ \A r \in Ranks :
              Count(r, NonRootEntries(lw_comms)) = Count(r, lw_receivers)
        /\ Len(NonRootEntries(lw_comms)) = Len(lw_receivers)

PartitionCompletenessWitness ==
    /\ lw_done
    /\ lw_senders = <<0, 1>>
    /\ lw_receivers = <<2, 1, 0>>
    /\ NonRootEntries(lw_comms) # <<>>

\* C2: load balance.  Each descriptor has floor(|R|/|S|) or ceil(|R|/|S|)
\* non-root entries; exactly |R| mod |S| descriptors have floor + 1, and
\* they are the descriptors of the first |R| mod |S| senders.
LoadBalance ==
    lw_done =>
        LET nS == Len(lw_senders)
            nR == Len(lw_receivers)
            q == nR \div nS
            rem == nR % nS
            ceil == IF rem = 0 THEN q ELSE q + 1
            size(k) == Len(lw_comms[k].team) - 1
        IN /\ \A k \in 1 .. Len(lw_comms) : size(k) \in {q, ceil}
           /\ {k \in 1 .. Len(lw_comms) : size(k) = q + 1} = 1 .. rem

LoadBalanceWitness ==
    /\ lw_done
    /\ Len(lw_senders) = 3
    /\ Len(lw_receivers) = 4
    /\ Len(lw_comms[1].team) = 3
    /\ Len(lw_comms[2].team) = 2

\* C3: contiguous, order-preserving assignment.  Concatenating the non-root
\* team entries in descriptor order gives the receiver vector itself.
ContiguousInOrder ==
    lw_done => NonRootEntries(lw_comms) = lw_receivers

ContiguousInOrderWitness ==
    /\ lw_done
    /\ lw_senders = <<1, 0>>
    /\ lw_receivers = <<2, 0, 1>>
    /\ lw_comms[1].team = <<1, 2, 0>>
    /\ lw_comms[2].team = <<0, 1>>

\* C4: one descriptor per sender.  |S| descriptors are produced, the i-th
\* has the i-th sender as root and as leading team entry, and a sender with
\* allotment zero has a team holding the root alone.
OneDescriptorPerSender ==
    lw_done =>
        /\ Len(lw_comms) = Len(lw_senders)
        /\ \A k \in 1 .. Len(lw_comms) :
              /\ lw_comms[k].root = lw_senders[k]
              /\ Len(lw_comms[k].team) >= 1
              /\ lw_comms[k].team[1] = lw_senders[k]
              /\ (Allotment(k - 1, Len(lw_senders), Len(lw_receivers)) = 0
                    => lw_comms[k].team = <<lw_senders[k]>>)

OneDescriptorPerSenderWitness ==
    /\ lw_done
    /\ lw_senders = <<2, 1, 0>>
    /\ lw_receivers = <<1>>
    /\ lw_comms[1].team = <<2, 1>>
    /\ lw_comms[2].team = <<1>>
    /\ lw_comms[3].team = <<0>>

\* ------------------------------------------------------------------------
\* Properties of the execution
\* ------------------------------------------------------------------------
SenderRanks == RanksOfMesh(mesh[CommInStage])
ReceiverRanks == RanksOfMesh(mesh[CommOutStage])
InSeq(x, s) == \E k \in 1 .. Len(s) : s[k] = x

\* the rank has left the loop of sendRecv calls of the communication
LoopEnded(r) ==
    /\ pc[r] = "comm"
    /\ call_idx[r] = Len(CallsOf(communications[r]))

\* C5 as stated: one communication issues one sendRecv call per (descriptor,
\* non-root team entry) pair, root as sender and the entry as receiver, in
\* descriptor-then-team order, and no other call: |R| calls in all.
DispatchNonRootOnly ==
    \A r \in Ranks :
        LoopEnded(r) =>
            /\ calls[r] =
                  Flatten([k \in 1 .. Len(communications[r]) |->
                              TeamCallsNonRoot(communications[r][k])])
            /\ Len(calls[r]) = Len(ReceiverRanks)

\* C5 amended: one communication issues one sendRecv call per (descriptor,
\* team entry) pair, the leading root entry included, root as sender and
\* the entry as receiver, in descriptor-then-team order, and no other call:
\* |S| + |R| calls in all, |S| of them naming the root as its own receiver.
DispatchEveryTeamEntry ==
    \A r \in Ranks :
        LoopEnded(r) =>
            LET comms == communications[r]
                before(k) ==
                    Len(Flatten([m \in 1 .. k - 1 |-> comms[m].team]))
            IN /\ Len(calls[r]) = Len(SenderRanks) + Len(ReceiverRanks)
               /\ \A k \in 1 .. Len(comms) :
                     \A n \in 1 .. Len(comms[k].team) :
                        calls[r][before(k) + n] =
                            <<comms[k].team[n], comms[k].root>>
               /\ Cardinality({n \in 1 .. Len(calls[r]) :
                                  calls[r][n][1] = calls[r][n][2]})
                     >= Len(SenderRanks)

DispatchEveryTeamEntryWitness ==
    \E r \in Ranks :
        /\ LoopEnded(r)
        /\ mesh[CommInStage] = <<0, 1>>
        /\ mesh[CommOutStage] = <<2>>
        /\ calls[r] = <<<<1, 1>>, <<0, 1>>, <<2, 2>>>>

\* every rank has completed the same number (at least one) of
\* handle(communication) calls and none is inside the next one
AllCommunicated ==
    /\ \A r \in Ranks : pc[r] # "comm" /\ comm_done[r] = comm_done[0]
    /\ comm_done[0] >= 1

\* the root of the descriptor that lists rank x after its root entry
RootOf(x) ==
    LET comms == Lower(SenderRanks, ReceiverRanks)
        k == CHOOSE k \in 1 .. Len(comms) : InSeq(x, Tail(comms[k].team))
    IN comms[k].root

\* C6 as stated: once every rank has executed handle(communication), every
\* sender and receiver rank has the consumer value bound, with the content
\* the producer value had on the sending rank before the call.
RoundTripTransfer ==
    AllCommunicated =>
        \A x \in Ranks :
            /\ InSeq(x, ReceiverRanks) =>
                  /\ CommOut \in DOMAIN val_to_IValue_[x]
                  /\ val_to_IValue_[x][CommOut] = pre[RootOf(x)]
            /\ (InSeq(x, SenderRanks) /\ ~InSeq(x, ReceiverRanks)) =>
                  /\ CommOut \in DOMAIN val_to_IValue_[x]
                  /\ val_to_IValue_[x][CommOut] = pre[x]

NonParticipant(r) == ~InSeq(r, SenderRanks) /\ ~InSeq(r, ReceiverRanks)

\* C7 as stated: a rank in neither the sender nor the receiver set has no
\* binding for the consumer value after handle(communication).
NonParticipantUnbound ==
    \A r \in Ranks :
        (NonParticipant(r) /\ comm_done[r] >= 1) =>
            CommOut \notin DOMAIN val_to_IValue_[r]

\* C7 amended: a rank in neither set does bind the consumer value in
\* handle(communication): to its own binding of the producer value, the
\* placeholder of its non-local producer stage; it receives no payload.
NonParticipantBindsOwn ==
    \A r \in Ranks :
        (NonParticipant(r) /\ comm_done[r] >= 1) =>
            /\ CommOut \in DOMAIN val_to_IValue_[r]
            /\ val_to_IValue_[r][CommOut] = val_to_IValue_[r][CommIn]
            /\ val_to_IValue_[r][CommOut] = Placeholder
            /\ receives[r] = 0

NonParticipantBindsOwnWitness ==
    \E r \in Ranks :
        /\ NonParticipant(r)
        /\ comm_done[r] = 1
        /\ node[r] = 3
        /\ val_to_IValue_[r][CommOut] = Placeholder

\* the run whose sendRecv calls are logged in calls[r] (0: none yet)
Epoch(r) == IF pc[r] = "idle" THEN runs[r] ELSE runs[r] + 1

IsPrefix(s, t) == Len(s) <= Len(t) /\ \A k \in 1 .. Len(s) : s[k] = t[k]

\* the calls of a log that name both a and b
Between(log, a, b) ==
    SelectSeq(log, LAMBDA c : {c[1], c[2]} = {a, b})

\* C8: cross-rank agreement.  Within one run every rank issues the same
\* sequence of (receiver, sender) sendRecv calls: the logs of two ranks in
\* the same run are one a prefix of the other, equal once both have left the
\* communication, and so list the transfers between the two in one order.
CrossRankAgreement ==
    \A a \in Ranks : \A b \in Ranks :
        (Epoch(a) = Epoch(b)) =>
            /\ IsPrefix(calls[a], calls[b]) \/ IsPrefix(calls[b], calls[a])
            /\ (comm_done[a] = Epoch(a) /\ comm_done[b] = Epoch(b))
                  => calls[a] = calls[b]
            /\ \/ IsPrefix(Between(calls[a], a, b), Between(calls[b], a, b))
               \/ IsPrefix(Between(calls[b], a, b), Between(calls[a], a, b))

CrossRankAgreementWitness ==
    /\ mesh[CommInStage] = <<0, 1>>
    /\ mesh[CommOutStage] = <<1, 2>>
    /\ \A r \in Ranks : Epoch(r) = 1 /\ comm_done[r] = 1
    /\ calls[0] = <<<<1, 1>>, <<2, 1>>, <<2, 2>>, <<0, 2>>>>
    /\ path[0][1] # path[1][1]

\* the scenario of C9: stage 1 on device 0, stage 2 on devices 1 and 2
Scenario == mesh[1] = <<0>> /\ mesh[2] = <<1, 2>>

Returned(r) == pc[r] = "idle" /\ runs[r] >= 1

\* C9: end-to-end scenario.  The rank of device 0 runs stage 1 for real and
\* stage 2 as a placeholder and receives nothing (V2 is its own V1); the
\* ranks of devices 1 and 2 run stage 1 as a placeholder, receive V2 with
\* the content of device 0's V1, run stage 2 for real and return the global
\* output computed from it.
EndToEndScenario ==
    Scenario =>
        LET r0 == DIdToRank(0)
        IN /\ Returned(r0) =>
                 /\ path[r0][1] = "real"
                 /\ path[r0][2] = "placeholder"
                 /\ receives[r0] = 0
                 /\ val_to_IValue_[r0]["V2"] = val_to_IValue_[r0]["V1"]
                 /\ val_to_IValue_[r0]["V2"].kind = "real"
                 /\ outputs[r0] = <<Placeholder>>
           /\ \A x \in {DIdToRank(1), DIdToRank(2)} :
                 Returned(x) =>
                    /\ path[x][1] = "placeholder"
                    /\ path[x][2] = "real"
                    /\ receives[x] = 1
                    /\ val_to_IValue_[x]["V2"].kind = "real"
                    /\ (comm_done[r0] = runs[x] /\ pc[r0] # "comm")
                          => val_to_IValue_[x]["V2"] = pre[r0]
                    /\ outputs[x] =
                          <<Real(200 + val_to_IValue_[x]["V2"].data)>>

EndToEndScenarioWitness ==
    /\ Scenario
    /\ \A r \in Ranks : Returned(r) /\ runs[r] = 1
    /\ outputs[DIdToRank(1)] = outputs[DIdToRank(2)]
    /\ outputs[DIdToRank(1)][1].kind = "real"
    /\ val_to_IValue_[DIdToRank(2)]["V2"] = pre[DIdToRank(0)]

\* C10: cache reuse.  Over all runWithInput calls on one executor a runner
\* is constructed at most once per stage and the membership test is
\* evaluated at most once per stage: once exactly when the stage has been
\* visited, whatever the number of visits.
CacheReuse ==
    \A r \in Ranks : \A s \in Stages :
        /\ fec_built[r][s] = (IF s \in fec_[r] THEN 1 ELSE 0)
        /\ membership_evals[r][s] =
              (IF s \in DOMAIN should_run_[r] THEN 1 ELSE 0)
        /\ (path[r][s] # "none") =>
              (s \in fec_[r] /\ s \in DOMAIN should_run_[r])

CacheReuseWitness ==
    \E r \in Ranks :
        /\ runs[r] >= 2
        /\ \A s \in Stages : fec_built[r][s] = 1 /\ membership_evals[r][s] = 1

\* ------------------------------------------------------------------------
\* Properties of repeated calls
\* ------------------------------------------------------------------------
\* C11 as stated: when a second or later runWithInput call has begun (its
\* global inputs are bound, no node is visited yet), the value bindings hold
\* nothing left over from the previous call, while the membership cache and
\* the runner cache still hold their entries.
ValueStoreResetBetweenCalls ==
    \A r \in Ranks :
        (pc[r] = "traverse" /\ node[r] = 1 /\ runs[r] >= 1) =>
            /\ \A v \in DOMAIN val_to_IValue_[r] : InSeq(v, PipelineInputs)
            /\ fec_[r] = Stages
            /\ DOMAIN should_run_[r] = Stages

\* ------------------------------------------------------------------------
\* Properties of one executor given ill-formed arguments
\* ------------------------------------------------------------------------
DevicesOf(mesh_vec) == {mesh_vec[k] : k \in 1 .. Len(mesh_vec)}

\* C12: membership determinism.  Whatever shouldRun(stage) has returned, on
\* its first call or from the cache, is true exactly when the device of the
\* local rank is an element of the stage's mesh, also for a mesh that lists
\* the device more than once; the cached boolean never differs from it.
MembershipDeterminism ==
    \A r \in Ranks : \A s \in Stages :
        /\ (s \in DOMAIN should_run_[r]) =>
              (should_run_[r][s] <=> RankToDiD(r) \in DevicesOf(mesh[s]))
        /\ (path[r][s] # "none") =>
              /\ s \in DOMAIN should_run_[r]
              /\ (path[r][s] = "real")
                    <=> (RankToDiD(r) \in DevicesOf(mesh[s]))

MembershipDeterminismWitness ==
    \E r \in Ranks :
        /\ mesh[1] = <<RankToDiD(r), RankToDiD(r)>>
        /\ mesh[2] = <<>>
        /\ path[r][1] = "real"
        /\ path[r][2] = "placeholder"
        /\ membership_evals[r][1] = 1

\* C13 as stated: handle(PipelineStage*) invoked while a declared input of
\* the stage has no binding fails before the runner is invoked; a runner is
\* never invoked on a default-constructed input.
UnboundInputFatal ==
    \A r \in Ranks : \A s \in Stages :
        (path[r][s] # "none") =>
            \A k \in 1 .. Len(StageInputs(s)) :
                /\ StageInputs(s)[k] \in DOMAIN val_to_IValue_[r]
                /\ val_to_IValue_[r][StageInputs(s)[k]] # None

Failed(r) == pc[r] \in {"failed_assert", "failed_out_of_range", "failed_trap"}

\* C14 as stated: a visit of a stage whose runner returns a number of
\* tensors different from the stage's declared output count, fewer or more,
\* ends in a failure.
ArityMismatchFatal ==
    [][\A r \in Ranks : \A s \in Stages :
          \A returned \in 0 .. Len(StageOutputs(s)) + 1 :
             (returned # Len(StageOutputs(s)) /\ DispatchStage(r, s, returned))
                => Failed(r)']_vars

\* C15 as stated: handle(PipelineCommunication*) on an edge whose producer
\* mesh is empty ends in a failure: the handler never gets past the lowering
\* and never completes.
EmptySendersFatal ==
    (Len(mesh[CommInStage]) = 0) =>
        \A r \in Ranks : pc[r] # "comm" /\ comm_done[r] = 0

\* C16: a runWithInput call with a wrong number of inputs fails at once and
\* without effect: the step that fails it starts from the idle executor and
\* changes no binding, no cache, no output, visits no node and issues no
\* transfer.
InputArityMismatchEffectFree ==
    [][\A r \in Ranks :
          (pc[r] # "failed_assert" /\ pc'[r] = "failed_assert") =>
              /\ pc[r] = "idle"
              /\ UNCHANGED <<val_to_IValue_, should_run_, fec_, outputs,
                             runs, node, calls, receives, path, comm_done,
                             fec_built, membership_evals>>]_vars

InputArityMismatchEffectFreeWitness ==
    \E r \in Ranks :
        /\ pc[r] = "failed_assert"
        /\ val_to_IValue_[r] = EmptyStore
        /\ outputs[r] = <<>>

\* ------------------------------------------------------------------------
\* Properties of the stage visits and of the bindings
\* ------------------------------------------------------------------------
\* the step is the visit of stage s by the traversal of rank r
StageVisited(r, s) ==
    /\ pc[r] = "traverse"
    /\ node[r] <= Len(TraversalOrder)
    /\ TraversalOrder[node[r]] = [kind |-> "stage", stage |-> s]
    /\ node'[r] = node[r] + 1

InputsOf(r, s) ==
    [k \in 1 .. Len(StageInputs(s)) |-> val_to_IValue_[r][StageInputs(s)[k]]]

\* C17: path selection.  A visit of a stage takes the real path if the
\* device of the local rank is in the stage's mesh and the placeholder path
\* otherwise, and binds the k-th declared output to the k-th result of that
\* path.
PathSelection ==
    [][\A r \in Ranks : \A s \in Stages :
          StageVisited(r, s) =>
              LET local == RankToDiD(r) \in DevicesOf(mesh[s])
                  results == IF local
                             THEN RunFusionWithInputs(s, InputsOf(r, s))
                             ELSE AllocOutputSpace(s, InputsOf(r, s))
              IN /\ path'[r][s] = (IF local THEN "real" ELSE "placeholder")
                 /\ \A k \in 1 .. Len(StageOutputs(s)) :
                       val_to_IValue_'[r][StageOutputs(s)[k]] = results[k]]_vars

PathSelectionWitness ==
    \E r \in Ranks : \E q \in Ranks :
        /\ path[r][2] = "real"
        /\ val_to_IValue_[r]["V3"].kind = "real"
        /\ val_to_IValue_[r]["V4"].kind = "real"
        /\ val_to_IValue_[r]["V4"] # val_to_IValue_[r]["V3"]
        /\ path[q][2] = "placeholder"
        /\ val_to_IValue_[q]["V4"] = Placeholder

\* C18 as stated: a binding is created once and never overwritten: no step
\* (other than a payload written into a tensor by a receive) changes or
\* removes a binding that exists.
SingleAssignment ==
    [][(receives' = receives) =>
          \A r \in Ranks : \A v \in DOMAIN val_to_IValue_[r] :
              /\ v \in DOMAIN val_to_IValue_'[r]
              /\ val_to_IValue_'[r][v] = val_to_IValue_[r][v]]_vars

\* C19: real compute never consumes placeholder data.  Whenever a visit of a
\* stage takes the real path, every input of the stage is bound to real
\* data.
RealComputeOnRealData ==
    [][\A r \in Ranks : \A s \in Stages :
          (StageVisited(r, s) /\ path'[r][s] = "real") =>
              \A k \in 1 .. Len(StageInputs(s)) :
                  /\ StageInputs(s)[k] \in DOMAIN val_to_IValue_[r]
                  /\ val_to_IValue_[r][StageInputs(s)[k]].kind = "real"]_vars

RealComputeOnRealDataWitness ==
    \E r \in Ranks :
        /\ path[r][1] = "placeholder"
        /\ path[r][2] = "real"
        /\ receives[r] = 1
        /\ val_to_IValue_[r]["V2"].kind = "real"
        /\ val_to_IValue_[r]["V3"].kind = "real"

\* every rank has made all its runWithInput calls and has returned from them
AllReturned == \A r \in Ranks : pc[r] = "idle" /\ runs[r] = run_budget

\* C20: deadlock freedom.  With sendRecv returning only once the peer has
\* issued the matching call, every rank's runWithInput eventually returns:
\* no reachable state leaves ranks blocked for ever.
DeadlockFreedom == <>AllReturned

DeadlockFreedomWitness ==
    /\ AllReturned
    /\ mesh[CommInStage] = <<0, 1>>
    /\ mesh[CommOutStage] = <<1, 0>>
    /\ \A r \in Ranks : runs[r] = 1
====
